---- MODULE Spec2Model ----
(***************************************************************************)
(* Model of the authentication and resilient-request core of the Twitch   *)
(* client (src/twitchAPI/twitch.py): the credential fields of class       *)
(* Twitch, header generation, token refresh, and the five request         *)
(* executors with their retry / refresh recursion.                        *)
(*                                                                         *)
(* A call of an executor is modelled as a small process: every recursive  *)
(* invocation of __api_<verb>_request is one "attempt" step (header       *)
(* generation, the HTTP request, the branch on the status code) and the   *)
(* token refresh in between is a step of its own, because it is a second  *)
(* network exchange.                                                       *)
(***************************************************************************)
EXTENDS Integers, Sequences, FiniteSets, TLC

\* ---------------------------------------------------------------- bounds
\* largest initial value of the `retries` parameter a call is started with
MaxRetries == 1
\* number of tokens the authorization server hands out in one behaviour
MaxIssued == 2
\* the same, counting the refreshes of concurrent calls
MaxThreadIssued == 3

\* ------------------------------------------------------------- constants
\* the default value of the `retries` parameter of every executor
DefaultRetries == 1
\* Optional[str] = None : "no token"; real tokens are 1, 2, ...
NoToken == 0

Callers == {"c1", "c2"}
\* the caller of a single-threaded program
MainThread == "c1"
Methods == {"GET", "POST", "PUT", "PATCH", "DELETE"}
AuthTypes == {"APP", "USER", "EITHER"}
Scopes == {"A", "B"}
\* the scope lists authenticate_app and set_user_authentication are given
\* (only membership in them is ever asked, so they are sets here)
GrantedScopes == {{}, {"A"}, {"A", "B"}}
\* the required_scope lists the endpoint methods pass (order matters)
RequiredScopes == {<<>>, <<"A">>, <<"A", "B">>, <<"B", "A">>}
\* status codes of the resource endpoint
Statuses == {200, 401, 404, 503}
\* answers of the authorization endpoint to a token request
AuthResults == {"ok", "non200", "badjson", "nokey"}

VARIABLES
    has_app_auth,              \* Twitch.__has_app_auth
    app_auth_token,            \* Twitch.__app_auth_token
    app_auth_scope,            \* Twitch.__app_auth_scope
    has_user_auth,             \* Twitch.__has_user_auth
    user_auth_token,           \* Twitch.__user_auth_token
    user_auth_refresh_token,   \* Twitch.__user_auth_refresh_token
    user_auth_scope,           \* Twitch.__user_auth_scope
    auto_refresh_auth,         \* Twitch.auto_refresh_auth
    issued,                    \* tokens handed out by the authorization server
    call,                      \* per caller: the executor invocation in flight
    last                       \* the last call of a public method: arguments, result

appcred == <<has_app_auth, app_auth_token, app_auth_scope>>
usercred == <<has_user_auth, user_auth_token, user_auth_refresh_token, user_auth_scope>>
creds == <<appcred, usercred>>
vars == <<creds, auto_refresh_auth, issued, call, last>>

\* ------------------------------------- what a call gives back to its caller
NoOutcome == [kind |-> "none"]
Response(status) == [kind |-> "response", status |-> status]
UnauthorizedException == [kind |-> "Unauthorized"]
MissingScopeException(s) == [kind |-> "MissingScope", scope |-> s]
TwitchBackendException == [kind |-> "BackendError"]
TwitchAuthorizationException == [kind |-> "AuthorizationFailed"]

\* ------------------------------------------------------ header generation
Range(s) == {s[i] : i \in 1..Len(s)}

Min(S) == CHOOSE x \in S : \A y \in S : x <= y

\* the loop `for s in required_scope: if s not in scope: raise`:
\* the indices of the required scopes the loop would raise on
MissingAt(required_scope, granted) ==
    {i \in 1..Len(required_scope) : required_scope[i] \notin granted}

Max(S) == CHOOSE x \in S : \A y \in S : x >= y

\* a loop that keeps going and raises on the last scope that is missing
LastMissing(required_scope, granted) ==
    required_scope[Max(MissingAt(required_scope, granted))]

\* the scope the loop raises on: the first one, in list order
FirstMissing(required_scope, granted) ==
    required_scope[Min(MissingAt(required_scope, granted))]

\* header = {"Client-ID": self.app_id}; Authorization is <<>> when the key
\* is absent and <<token>> for 'Bearer <token>'
Header(auth) == [ClientID |-> "app_id", Authorization |-> auth]

HeaderOk(h) == [ok |-> TRUE, error |-> NoOutcome, header |-> h]
HeaderFail(e) == [ok |-> FALSE, error |-> e, header |-> Header(<<>>)]

\* header generation without the `if not self.__has_..._auth: raise` checks
GenerateHeaderUnchecked(auth_type, required_scope) ==
    IF auth_type = "APP"
    THEN IF MissingAt(required_scope, app_auth_scope) # {}
         THEN HeaderFail(MissingScopeException(FirstMissing(required_scope, app_auth_scope)))
         ELSE HeaderOk(Header(<<app_auth_token>>))
    ELSE IF auth_type = "USER"
    THEN IF MissingAt(required_scope, user_auth_scope) # {}
         THEN HeaderFail(MissingScopeException(FirstMissing(required_scope, user_auth_scope)))
         ELSE HeaderOk(Header(<<user_auth_token>>))
    ELSE IF has_user_auth \/ has_app_auth
    THEN HeaderOk(Header(<<IF has_user_auth THEN user_auth_token ELSE app_auth_token>>))
    ELSE HeaderOk(Header(<<>>))

\* without a required auth type the app token is preferred to the user token
GenerateHeaderAppFirst(auth_type, required_scope) ==
    IF auth_type = "APP"
    THEN IF ~has_app_auth
         THEN HeaderFail(UnauthorizedException)
         ELSE IF MissingAt(required_scope, app_auth_scope) # {}
              THEN HeaderFail(MissingScopeException(FirstMissing(required_scope, app_auth_scope)))
              ELSE HeaderOk(Header(<<app_auth_token>>))
    ELSE IF auth_type = "USER"
    THEN IF ~has_user_auth
         THEN HeaderFail(UnauthorizedException)
         ELSE IF MissingAt(required_scope, user_auth_scope) # {}
              THEN HeaderFail(MissingScopeException(FirstMissing(required_scope, user_auth_scope)))
              ELSE HeaderOk(Header(<<user_auth_token>>))
    ELSE IF has_user_auth \/ has_app_auth
    THEN HeaderOk(Header(<<IF has_app_auth THEN app_auth_token ELSE user_auth_token>>))
    ELSE HeaderOk(Header(<<>>))

\* without a required auth type only the user credential is looked for
GenerateHeaderEitherUserOnly(auth_type, required_scope) ==
    IF auth_type = "APP"
    THEN IF ~has_app_auth
         THEN HeaderFail(UnauthorizedException)
         ELSE IF MissingAt(required_scope, app_auth_scope) # {}
              THEN HeaderFail(MissingScopeException(FirstMissing(required_scope, app_auth_scope)))
              ELSE HeaderOk(Header(<<app_auth_token>>))
    ELSE IF auth_type = "USER"
    THEN IF ~has_user_auth
         THEN HeaderFail(UnauthorizedException)
         ELSE IF MissingAt(required_scope, user_auth_scope) # {}
              THEN HeaderFail(MissingScopeException(FirstMissing(required_scope, user_auth_scope)))
              ELSE HeaderOk(Header(<<user_auth_token>>))
    ELSE IF has_user_auth
    THEN HeaderOk(Header(<<user_auth_token>>))
    ELSE HeaderOk(Header(<<>>))

GenerateHeader(auth_type, required_scope) ==
    IF auth_type = "APP"
    THEN IF ~has_app_auth
         THEN HeaderFail(UnauthorizedException)
         ELSE IF MissingAt(required_scope, app_auth_scope) # {}
              THEN HeaderFail(MissingScopeException(FirstMissing(required_scope, app_auth_scope)))
              ELSE HeaderOk(Header(<<app_auth_token>>))
    ELSE IF auth_type = "USER"
    THEN IF ~has_user_auth
         THEN HeaderFail(UnauthorizedException)
         ELSE IF MissingAt(required_scope, user_auth_scope) # {}
              THEN HeaderFail(MissingScopeException(FirstMissing(required_scope, user_auth_scope)))
              ELSE HeaderOk(Header(<<user_auth_token>>))
    ELSE IF has_user_auth \/ has_app_auth
    THEN HeaderOk(Header(<<IF has_user_auth THEN user_auth_token ELSE app_auth_token>>))
    ELSE HeaderOk(Header(<<>>))

\* the credential whose token GenerateHeader puts into the header
UsedCredential(auth_type) ==
    IF auth_type = "APP" THEN "app"
    ELSE IF auth_type = "USER" THEN "user"
    ELSE IF has_user_auth THEN "user"
    ELSE IF has_app_auth THEN "app"
    ELSE "none"


\* ------------------------------------------------------------ executors
\* What one invocation of an executor does with the response it received:
\*   "refresh" : refresh_used_token(), then recurse with the given retries
\*   "resend"  : recurse with the given retries
\*   "raise"   : raise TwitchBackendException
\*   "return"  : return req
Branch(next, retries) == [next |-> next, retries |-> retries]

\* `retries >= 0` for `retries > 0`: one refresh too many
ApiGetRequestOffByOne(retries, status) ==
    IF auto_refresh_auth /\ retries >= 0
    THEN IF status = 401 THEN Branch("refresh", retries - 1)
         ELSE IF status = 503 THEN Branch("resend", 0)
         ELSE Branch("return", retries)
    ELSE IF auto_refresh_auth /\ retries <= 0
    THEN IF status = 503 THEN Branch("raise", retries)
         ELSE Branch("return", retries)
    ELSE Branch("return", retries)

\* the second 503 is returned like any other response
ApiGetRequestNoRaise(retries, status) ==
    IF auto_refresh_auth /\ retries > 0
    THEN IF status = 401 THEN Branch("refresh", retries - 1)
         ELSE IF status = 503 THEN Branch("resend", 0)
         ELSE Branch("return", retries)
    ELSE Branch("return", retries)

\* the resend after a 503 keeps the retries it had
ApiGetRequestKeepRetries(retries, status) ==
    IF auto_refresh_auth /\ retries > 0
    THEN IF status = 401 THEN Branch("refresh", retries - 1)
         ELSE IF status = 503 THEN Branch("resend", retries)
         ELSE Branch("return", retries)
    ELSE IF auto_refresh_auth /\ retries <= 0
    THEN IF status = 503 THEN Branch("raise", retries)
         ELSE Branch("return", retries)
    ELSE Branch("return", retries)

\* the auto_refresh_auth flag is not looked at
ApiGetRequestIgnoreFlag(retries, status) ==
    IF retries > 0
    THEN IF status = 401 THEN Branch("refresh", retries - 1)
         ELSE IF status = 503 THEN Branch("resend", 0)
         ELSE Branch("return", retries)
    ELSE IF retries <= 0
    THEN IF status = 503 THEN Branch("raise", retries)
         ELSE Branch("return", retries)
    ELSE Branch("return", retries)

\* every 4xx status is taken for an expired token
ApiGetRequestAny4xx(retries, status) ==
    IF auto_refresh_auth /\ retries > 0
    THEN IF status >= 400 /\ status < 500 THEN Branch("refresh", retries - 1)
         ELSE IF status = 503 THEN Branch("resend", 0)
         ELSE Branch("return", retries)
    ELSE IF auto_refresh_auth /\ retries <= 0
    THEN IF status = 503 THEN Branch("raise", retries)
         ELSE Branch("return", retries)
    ELSE Branch("return", retries)

ApiGetRequest(retries, status) ==
    IF auto_refresh_auth /\ retries > 0
    THEN IF status = 401 THEN Branch("refresh", retries - 1)
         ELSE IF status = 503 THEN Branch("resend", 0)
         ELSE Branch("return", retries)
    ELSE IF auto_refresh_auth /\ retries <= 0
    THEN IF status = 503 THEN Branch("raise", retries)
         ELSE Branch("return", retries)
    ELSE Branch("return", retries)

ApiPostRequest(retries, status) ==
    IF auto_refresh_auth /\ retries > 0
    THEN IF status = 401 THEN Branch("refresh", retries - 1)
         ELSE IF status = 503 THEN Branch("resend", 0)
         ELSE Branch("return", retries)
    ELSE IF auto_refresh_auth /\ retries <= 0
    THEN IF status = 503 THEN Branch("raise", retries)
         ELSE Branch("return", retries)
    ELSE Branch("return", retries)

ApiPutRequest(retries, status) ==
    IF auto_refresh_auth /\ retries > 0
    THEN IF status = 401 THEN Branch("refresh", retries - 1)
         ELSE IF status = 503 THEN Branch("resend", 0)
         ELSE Branch("return", retries)
    ELSE IF auto_refresh_auth /\ retries <= 0
    THEN IF status = 503 THEN Branch("raise", retries)
         ELSE Branch("return", retries)
    ELSE Branch("return", retries)

ApiPatchRequest(retries, status) ==
    IF auto_refresh_auth /\ retries > 0
    THEN IF status = 401 THEN Branch("refresh", retries - 1)
         ELSE IF status = 503 THEN Branch("resend", 0)
         ELSE Branch("return", retries)
    ELSE IF auto_refresh_auth /\ retries <= 0
    THEN IF status = 503 THEN Branch("raise", retries)
         ELSE Branch("return", retries)
    ELSE Branch("return", retries)

ApiDeleteRequest(retries, status) ==
    IF auto_refresh_auth /\ retries > 0
    THEN IF status = 401 THEN Branch("refresh", retries - 1)
         ELSE IF status = 503 THEN Branch("resend", 0)
         ELSE Branch("return", retries)
    ELSE IF auto_refresh_auth /\ retries <= 0
    THEN IF status = 503 THEN Branch("raise", retries)
         ELSE Branch("return", retries)
    ELSE Branch("return", retries)

\* the executor an endpoint method with the given HTTP verb calls
Executor(method, retries, status) ==
    CASE method = "GET" -> ApiGetRequest(retries, status)
      [] method = "POST" -> ApiPostRequest(retries, status)
      [] method = "PUT" -> ApiPutRequest(retries, status)
      [] method = "PATCH" -> ApiPatchRequest(retries, status)
      [] method = "DELETE" -> ApiDeleteRequest(retries, status)

\* ------------------------------------------------------- calls in flight
\* pc       "idle" | "attempt" (an invocation of the executor is about to
\*          run) | "refresh" (inside refresh_used_token) | "done";
\*          with threads also "store_token" and "store_refresh_token"
\*          (inside refresh_used_token, the pair of refresh_access_token in
\*          hand, before the first and before the second attribute store)
\* retries  the `retries` argument of the invocation that runs next
\* budget   the `retries` argument the endpoint method's call started with
\* hist     status codes of the resource requests sent so far, in order
\* sent     per resource request sent: the headers it carried
\* used     per resource request sent: the credential its token came from
\* refreshed  per refresh_used_token() made: target, "user" or "app", the
\*          token that was requested; ok, whether it returned (or raised);
\*          after, the number of the resource request whose 401 caused it;
\*          request, what the authorization endpoint was asked for, and
\*          answer, what it answered;
\*          before, the credential fields when the refresh began;
\*          token, the access token it was given (NoToken if none)
\* outcome  what the call gave back to the endpoint method
IdleCall ==
    [pc |-> "idle", method |-> "GET", auth_type |-> "EITHER",
     required_scope |-> <<>>, retries |-> 0, budget |-> 0, hist |-> <<>>,
     sent |-> <<>>, used |-> <<>>, refreshed |-> <<>>, outcome |-> NoOutcome]

\* no call of a public method of the client has been made, or its result
\* has been replaced by a later operation
NoLast == [op |-> "none"]

Quiescent == \A c \in Callers : call[c].pc = "idle"

Init ==
    /\ has_app_auth = FALSE
    /\ app_auth_token = NoToken
    /\ app_auth_scope = {}
    /\ has_user_auth = FALSE
    /\ user_auth_token = NoToken
    /\ user_auth_refresh_token = NoToken
    /\ user_auth_scope = {}
    /\ auto_refresh_auth = TRUE
    /\ issued = 0
    /\ call = [c \in Callers |-> IdleCall]
    /\ last = NoLast

\* an endpoint method calls the executor of its HTTP verb
StartCall(c, method, auth_type, required_scope, retries) ==
    /\ call[c].pc = "idle"
    /\ call' = [call EXCEPT ![c] =
            [IdleCall EXCEPT !.pc = "attempt", !.method = method,
                             !.auth_type = auth_type,
                             !.required_scope = required_scope,
                             !.retries = retries, !.budget = retries]]
    /\ last' = NoLast
    /\ UNCHANGED <<creds, auto_refresh_auth, issued>>

\* the scope check in mode App assigns the required scopes to the granted
\* ones where it should only compare them
AttemptScopeAssigned(c, status) ==
    /\ call[c].pc = "attempt"
    /\ LET k == call[c]
           h == GenerateHeader(k.auth_type, k.required_scope)
           b == Executor(k.method, k.retries, status)
           s == [k EXCEPT !.hist = Append(@, status),
                          !.sent = Append(@, h.header),
                          !.used = Append(@, UsedCredential(k.auth_type))]
       IN  call' = [call EXCEPT ![c] =
               IF ~h.ok
               THEN [k EXCEPT !.pc = "done", !.outcome = h.error]
               ELSE CASE b.next = "refresh" ->
                         [s EXCEPT !.pc = "refresh", !.retries = b.retries]
                      [] b.next = "resend" ->
                         [s EXCEPT !.pc = "attempt", !.retries = b.retries]
                      [] b.next = "raise" ->
                         [s EXCEPT !.pc = "done", !.outcome = TwitchBackendException]
                      [] b.next = "return" ->
                         [s EXCEPT !.pc = "done", !.outcome = Response(status)]]
    /\ app_auth_scope' = IF call[c].auth_type = "APP" /\ has_app_auth
                         THEN Range(call[c].required_scope)
                         ELSE app_auth_scope
    /\ UNCHANGED <<has_app_auth, app_auth_token, usercred, auto_refresh_auth,
                   issued, last>>

\* one invocation of the executor: generate the header, send the request,
\* receive `status`, branch on it
Attempt(c, status) ==
    /\ call[c].pc = "attempt"
    /\ LET k == call[c]
           h == GenerateHeader(k.auth_type, k.required_scope)
           b == Executor(k.method, k.retries, status)
           s == [k EXCEPT !.hist = Append(@, status),
                          !.sent = Append(@, h.header),
                          !.used = Append(@, UsedCredential(k.auth_type))]
       IN  call' = [call EXCEPT ![c] =
               IF ~h.ok
               THEN [k EXCEPT !.pc = "done", !.outcome = h.error]
               ELSE CASE b.next = "refresh" ->
                         [s EXCEPT !.pc = "refresh", !.retries = b.retries]
                      [] b.next = "resend" ->
                         [s EXCEPT !.pc = "attempt", !.retries = b.retries]
                      [] b.next = "raise" ->
                         [s EXCEPT !.pc = "done", !.outcome = TwitchBackendException]
                      [] b.next = "return" ->
                         [s EXCEPT !.pc = "done", !.outcome = Response(status)]]
    /\ UNCHANGED <<creds, auto_refresh_auth, issued, last>>

\* the scope get_hype_train_events asks for
CHANNEL_READ_HYPE_TRAIN == "A"

\* get_hype_train_events(broadcaster_id, first): the range check of `first`,
\* then the GET executor with its fixed auth type and required scope
GetHypeTrainEvents(c, first) ==
    IF first < 1 \/ first > 100
    THEN /\ call[c].pc = "idle"
         /\ last' = [op |-> "get_hype_train_events", raised |-> "ValueError"]
         /\ UNCHANGED <<creds, auto_refresh_auth, issued, call>>
    ELSE StartCall(c, "GET", "APP", <<CHANNEL_READ_HYPE_TRAIN>>, DefaultRetries)

\* the endpoint method has the call's result; the caller is free again
Return(c) ==
    /\ call[c].pc = "done"
    /\ call' = [call EXCEPT ![c] = IdleCall]
    /\ UNCHANGED <<creds, auto_refresh_auth, issued, last>>

\* ---------------------------------------------------------- token refresh
\* the authorization server can hand out a token only while some are left
CanIssue(result) == result = "ok" => issued < MaxIssued

\* __generate_app_token with the authorization endpoint answering `result`:
\* TRUE when it returns, FALSE when it raises TwitchAuthorizationException
GenerateAppTokenOk(result) == result = "ok"

\* the token is cleared before the answer is looked at
GenerateAppTokenClearing(result) ==
    IF GenerateAppTokenOk(result)
    THEN /\ app_auth_token' = issued + 1
         /\ issued' = issued + 1
    ELSE /\ app_auth_token' = NoToken
         /\ UNCHANGED issued

GenerateAppToken(result) ==
    IF GenerateAppTokenOk(result)
    THEN /\ app_auth_token' = issued + 1
         /\ issued' = issued + 1
    ELSE UNCHANGED <<app_auth_token, issued>>

\* oauth.refresh_access_token: a new (token, refresh token) pair, or an
\* error; an absent refresh token cannot be exchanged
RefreshAccessTokenOk(refresh_token, result) ==
    result = "ok" /\ refresh_token # NoToken

\* the scope parameter is left out of the token request
GenerateAppTokenRequestNoScope ==
    [grant_type |-> "client_credentials", scope |-> {}]

\* what __generate_app_token asks the authorization endpoint for
GenerateAppTokenRequest ==
    [grant_type |-> "client_credentials", scope |-> app_auth_scope]

\* what refresh_used_token() asks the authorization endpoint for
RefreshUsedTokenRequest ==
    IF has_user_auth
    THEN [grant_type |-> "refresh_token", refresh_token |-> user_auth_refresh_token]
    ELSE GenerateAppTokenRequest

\* which token refresh_used_token() refreshes
RefreshTarget == IF has_user_auth THEN "user" ELSE "app"

RefreshUsedTokenOk(result) ==
    IF has_user_auth
    THEN RefreshAccessTokenOk(user_auth_refresh_token, result)
    ELSE GenerateAppTokenOk(result)

\* only the first element of the returned pair is stored
RefreshUsedTokenFirstOnly(result) ==
    IF has_user_auth
    THEN /\ IF RefreshAccessTokenOk(user_auth_refresh_token, result)
            THEN /\ user_auth_token' = issued + 1
                 /\ issued' = issued + 1
                 /\ UNCHANGED user_auth_refresh_token
            ELSE UNCHANGED <<user_auth_token, user_auth_refresh_token, issued>>
         /\ UNCHANGED <<has_user_auth, user_auth_scope, appcred>>
    ELSE /\ GenerateAppToken(result)
         /\ UNCHANGED <<has_app_auth, app_auth_scope, usercred>>

RefreshUsedToken(result) ==
    IF has_user_auth
    THEN /\ IF RefreshAccessTokenOk(user_auth_refresh_token, result)
            THEN /\ user_auth_token' = issued + 1
                 /\ user_auth_refresh_token' = issued + 1
                 /\ issued' = issued + 1
            ELSE UNCHANGED <<user_auth_token, user_auth_refresh_token, issued>>
         /\ UNCHANGED <<has_user_auth, user_auth_scope, appcred>>
    ELSE /\ GenerateAppToken(result)
         /\ UNCHANGED <<has_app_auth, app_auth_scope, usercred>>

\* the refresh a 401 triggered, and the recursion (or the exception) after it
Refresh(c, result) ==
    /\ call[c].pc = "refresh"
    /\ CanIssue(result)
    /\ RefreshUsedToken(result)
    /\ LET done == [target |-> RefreshTarget, ok |-> RefreshUsedTokenOk(result),
                    after |-> Len(call[c].hist),
                    request |-> RefreshUsedTokenRequest, answer |-> result,
                    before |-> creds,
                    token |-> IF RefreshUsedTokenOk(result)
                              THEN issued + 1 ELSE NoToken]
       IN  call' = [call EXCEPT ![c] =
               IF RefreshUsedTokenOk(result)
               THEN [@ EXCEPT !.pc = "attempt",
                              !.refreshed = Append(@, done)]
               ELSE [@ EXCEPT !.pc = "done",
                              !.refreshed = Append(@, done),
                              !.outcome = TwitchAuthorizationException]]
    /\ UNCHANGED <<auto_refresh_auth, last>>

\* ------------------------------------------------- the client's own calls
\* the installed flag follows the result of the latest token request
AuthenticateAppResetsFlag(scope, result) ==
    /\ CanIssue(result)
    /\ app_auth_scope' = scope
    /\ GenerateAppToken(result)
    /\ has_app_auth' = GenerateAppTokenOk(result)
    /\ last' = [op |-> "authenticate_app", scope |-> scope, before |-> creds,
                raised |-> IF GenerateAppTokenOk(result) THEN "none"
                           ELSE "TwitchAuthorizationException"]
    /\ UNCHANGED <<usercred, auto_refresh_auth, call>>

\* authenticating the app drops the user credential
AuthenticateAppDropsUser(scope, result) ==
    /\ CanIssue(result)
    /\ app_auth_scope' = scope
    /\ GenerateAppToken(result)
    /\ has_app_auth' = (IF GenerateAppTokenOk(result) THEN TRUE ELSE has_app_auth)
    /\ has_user_auth' = (IF GenerateAppTokenOk(result) THEN FALSE ELSE has_user_auth)
    /\ last' = [op |-> "authenticate_app", scope |-> scope, before |-> creds,
                raised |-> IF GenerateAppTokenOk(result) THEN "none"
                           ELSE "TwitchAuthorizationException"]
    /\ UNCHANGED <<user_auth_token, user_auth_refresh_token, user_auth_scope,
                   auto_refresh_auth, call>>

AuthenticateApp(scope, result) ==
    /\ CanIssue(result)
    /\ app_auth_scope' = scope
    /\ GenerateAppToken(result)
    /\ has_app_auth' = (IF GenerateAppTokenOk(result) THEN TRUE ELSE has_app_auth)
    /\ last' = [op |-> "authenticate_app", scope |-> scope, before |-> creds,
                raised |-> IF GenerateAppTokenOk(result) THEN "none"
                           ELSE "TwitchAuthorizationException"]
    /\ UNCHANGED <<usercred, auto_refresh_auth, call>>

\* the token is stored before the refresh token is looked at
SetUserAuthenticationLateCheck(scope, refresh_token) ==
    /\ issued < MaxIssued
    /\ issued' = issued + 1
    /\ user_auth_token' = issued + 1
    /\ IF refresh_token = NoToken /\ auto_refresh_auth
       THEN UNCHANGED <<has_user_auth, user_auth_refresh_token, user_auth_scope>>
       ELSE /\ user_auth_refresh_token' = refresh_token
            /\ user_auth_scope' = scope
            /\ has_user_auth' = TRUE
    /\ last' = [op |-> "set_user_authentication", token |-> issued + 1,
                scope |-> scope, refresh_token |-> refresh_token,
                before |-> creds,
                raised |-> IF refresh_token = NoToken /\ auto_refresh_auth
                           THEN "ValueError" ELSE "none"]
    /\ UNCHANGED <<appcred, auto_refresh_auth, call>>

\* the token passed is the next one the authorization server handed to the
\* user; refresh_token = NoToken is the call without a refresh token
SetUserAuthentication(scope, refresh_token) ==
    /\ issued < MaxIssued
    /\ IF refresh_token = NoToken /\ auto_refresh_auth
       THEN UNCHANGED <<usercred, issued>>
       ELSE /\ issued' = issued + 1
            /\ user_auth_token' = issued + 1
            /\ user_auth_refresh_token' = refresh_token
            /\ user_auth_scope' = scope
            /\ has_user_auth' = TRUE
    /\ last' = [op |-> "set_user_authentication", token |-> issued + 1,
                scope |-> scope, refresh_token |-> refresh_token,
                before |-> creds,
                raised |-> IF refresh_token = NoToken /\ auto_refresh_auth
                           THEN "ValueError" ELSE "none"]
    /\ UNCHANGED <<appcred, auto_refresh_auth, call>>

\* twitch.refresh_used_token(), called by the application
RefreshUsedTokenCall(result) ==
    /\ CanIssue(result)
    /\ RefreshUsedToken(result)
    /\ last' = [op |-> "refresh_used_token", target |-> RefreshTarget,
                request |-> RefreshUsedTokenRequest, answer |-> result,
                before |-> creds,
                raised |-> IF RefreshUsedTokenOk(result) THEN "none"
                           ELSE "TwitchAuthorizationException"]
    /\ UNCHANGED <<auto_refresh_auth, call>>

\* twitch.auto_refresh_auth = value
SetAutoRefreshAuth(value) ==
    /\ auto_refresh_auth' = value
    /\ last' = NoLast
    /\ UNCHANGED <<creds, issued, call>>

\* the getters
GetAppToken == app_auth_token

GetUserAuthToken == user_auth_token

GetUsedToken == IF has_user_auth THEN user_auth_token ELSE app_auth_token

\* ------------------------------------------------------------- threads
\* Calls made from several threads on one client: the steps of the calls
\* interleave. A call's refresh_used_token() is then three steps, because
\* the tuple assignment
\*     self.__user_auth_token, self.__user_auth_refresh_token = ...
\* is two attribute stores and the interpreter may switch threads between
\* them (and during the network exchange before them).

\* the `if self.__has_user_auth`, the argument self.__user_auth_refresh_token
\* and the exchange with the authorization endpoint; in the else branch the
\* whole of __generate_app_token(), whose one store ends it
RefreshExchange(c, result) ==
    /\ call[c].pc = "refresh"
    /\ result = "ok" => issued < MaxThreadIssued
    /\ LET done == [target |-> RefreshTarget, ok |-> RefreshUsedTokenOk(result),
                    after |-> Len(call[c].hist),
                    request |-> RefreshUsedTokenRequest, answer |-> result,
                    before |-> creds,
                    token |-> IF RefreshUsedTokenOk(result)
                              THEN issued + 1 ELSE NoToken]
       IN  call' = [call EXCEPT ![c] =
               IF ~RefreshUsedTokenOk(result)
               THEN [@ EXCEPT !.pc = "done",
                              !.refreshed = Append(@, done),
                              !.outcome = TwitchAuthorizationException]
               ELSE IF has_user_auth
               THEN [@ EXCEPT !.pc = "store_token",
                              !.refreshed = Append(@, done)]
               ELSE [@ EXCEPT !.pc = "attempt",
                              !.refreshed = Append(@, done)]]
    /\ IF has_user_auth
       THEN /\ issued' = IF RefreshUsedTokenOk(result) THEN issued + 1 ELSE issued
            /\ UNCHANGED app_auth_token
       ELSE GenerateAppToken(result)
    /\ UNCHANGED <<has_app_auth, app_auth_scope, usercred, auto_refresh_auth, last>>

\* the first store of the tuple assignment: self.__user_auth_token
StoreUserToken(c) ==
    /\ call[c].pc = "store_token"
    /\ user_auth_token' = call[c].refreshed[Len(call[c].refreshed)].token
    /\ call' = [call EXCEPT ![c].pc = "store_refresh_token"]
    /\ UNCHANGED <<appcred, has_user_auth, user_auth_refresh_token,
                   user_auth_scope, auto_refresh_auth, issued, last>>

\* the second store: self.__user_auth_refresh_token; refresh_used_token()
\* returns and the executor calls itself
StoreUserRefreshToken(c) ==
    /\ call[c].pc = "store_refresh_token"
    /\ user_auth_refresh_token' = call[c].refreshed[Len(call[c].refreshed)].token
    /\ call' = [call EXCEPT ![c].pc = "attempt"]
    /\ UNCHANGED <<appcred, has_user_auth, user_auth_token,
                   user_auth_scope, auto_refresh_auth, issued, last>>

\* the client is set up by one thread, then each thread makes calls of
\* endpoint methods, one after the other
ThreadNext ==
    \/ \E c \in Callers, a \in AuthTypes :
            StartCall(c, "GET", a, <<>>, DefaultRetries)
    \/ \E c \in Callers, status \in Statuses : Attempt(c, status)
    \/ \E c \in Callers, result \in AuthResults : RefreshExchange(c, result)
    \/ \E c \in Callers : StoreUserToken(c)
    \/ \E c \in Callers : StoreUserRefreshToken(c)
    \/ \E c \in Callers : Return(c)
    \/ \E scope \in GrantedScopes, result \in AuthResults :
            Quiescent /\ AuthenticateApp(scope, result)
    \/ \E scope \in GrantedScopes, r \in {NoToken, issued + 1} :
            Quiescent /\ SetUserAuthentication(scope, r)
    \/ \E value \in BOOLEAN : Quiescent /\ SetAutoRefreshAuth(value)

ThreadSpec == Init /\ [][ThreadNext]_vars

\* ---------------------------------------------------------- specification
\* one thread: the client's methods run one after the other, each to its end
Next ==
    \/ \E m \in Methods, a \in AuthTypes,
          R \in RequiredScopes, b \in 0..MaxRetries :
            Quiescent /\ StartCall(MainThread, m, a, R, b)
    \/ \E first \in {0, 1, 100, 101} :
            Quiescent /\ GetHypeTrainEvents(MainThread, first)
    \/ \E c \in Callers, status \in Statuses : Attempt(c, status)
    \/ \E c \in Callers, result \in AuthResults : Refresh(c, result)
    \/ \E c \in Callers : Return(c)
    \/ \E scope \in GrantedScopes, result \in AuthResults :
            Quiescent /\ AuthenticateApp(scope, result)
    \/ \E scope \in GrantedScopes, r \in {NoToken, issued + 1} :
            Quiescent /\ SetUserAuthentication(scope, r)
    \/ \E result \in AuthResults : Quiescent /\ RefreshUsedTokenCall(result)
    \/ \E value \in BOOLEAN : Quiescent /\ SetAutoRefreshAuth(value)

Spec == Init /\ [][Next]_vars

TypeOK ==
    /\ has_app_auth \in BOOLEAN /\ has_user_auth \in BOOLEAN
    /\ auto_refresh_auth \in BOOLEAN
    /\ issued \in 0..MaxIssued
    /\ app_auth_token \in 0..MaxIssued
    /\ user_auth_token \in 0..MaxIssued
    /\ user_auth_refresh_token \in 0..MaxIssued
    /\ app_auth_scope \subseteq Scopes /\ user_auth_scope \subseteq Scopes
    /\ \A c \in Callers : call[c].pc \in {"idle", "attempt", "refresh", "done"}


\* ================================================================ claims
NReq(c) == Len(call[c].hist)
NRefresh(c) == Len(call[c].refreshed)
Done(c) == call[c].pc = "done"
Running(c) == call[c].pc # "idle"

\* no credential is installed for the auth mode
NoCredential(auth_type) ==
    \/ auth_type = "APP" /\ ~has_app_auth
    \/ auth_type = "USER" /\ ~has_user_auth

\* the granted scope set of the credential of the auth mode App or User
Granted(auth_type) == IF auth_type = "APP" THEN app_auth_scope ELSE user_auth_scope

\* C1: a call in mode App (User) made while no app (user) credential is
\* installed ends, in its first step, with Unauthorized: no resource request
\* was sent, no refresh was made and no credential field changed; whatever
\* the HTTP verb, the required scopes and the other credential.
C1_UnauthorizedBeforeNetwork ==
    [][\A c \in Callers :
          (/\ call[c].pc = "attempt"
           /\ NoCredential(call[c].auth_type)
           /\ call'[c] # call[c])
          => /\ call'[c].pc = "done"
             /\ call'[c].outcome = UnauthorizedException
             /\ call'[c].hist = <<>>
             /\ call'[c].refreshed = <<>>
             /\ creds' = creds]_vars

C1_Witness ==
    \E c \in Callers :
        /\ Done(c)
        /\ call[c].outcome = UnauthorizedException
        /\ call[c].auth_type = "USER" /\ ~has_user_auth /\ has_app_auth
        /\ call[c].method = "DELETE"
        /\ call[c].required_scope = <<"A", "B">>
        /\ NReq(c) = 0 /\ NRefresh(c) = 0

\* C2: for a call in mode App or User whose credential is installed with
\* granted scopes G and whose required scopes are the list R: the header is
\* built (and a request sent) exactly if every scope of R is in G; otherwise
\* the call ends with MissingScope naming the first scope of R, in list
\* order, that is not in G, and no resource request and no refresh is made.
C2_ScopeCheck ==
    \A c \in Callers :
        LET k == call[c]
            R == k.required_scope
            G == Granted(k.auth_type)
        IN  (/\ k.auth_type \in {"APP", "USER"}
             /\ ~NoCredential(k.auth_type)
             /\ (k.pc \in {"refresh", "done"} \/ NReq(c) > 0))
            => /\ NReq(c) > 0 <=> Range(R) \subseteq G
               /\ ~(Range(R) \subseteq G) =>
                    /\ k.pc = "done"
                    /\ k.outcome.kind = "MissingScope"
                    /\ \E i \in 1..Len(R) :
                          /\ k.outcome.scope = R[i]
                          /\ R[i] \notin G
                          /\ \A j \in 1..(i - 1) : R[j] \in G
                    /\ NRefresh(c) = 0

\* G = {A}, R = [A, B]: MissingScope naming B, nothing sent
C2_Witness ==
    \E c \in Callers :
        /\ Done(c)
        /\ call[c].auth_type = "APP" /\ has_app_auth
        /\ app_auth_scope = {"A"}
        /\ call[c].required_scope = <<"A", "B">>
        /\ call[c].outcome = MissingScopeException("B")
        /\ NReq(c) = 0


\* a call an endpoint method makes: the `retries` parameter is defaulted
DefaultCall(c) == Running(c) /\ call[c].budget = DefaultRetries

\* C3 as claimed: with auto-refresh enabled and the default budget, a call
\* whose first attempt returned 401 has, when it ends, made exactly one
\* refresh attempt and exactly one resend; a 200 on the resend is returned,
\* and so is a second 401, raw.
C3_OneRefreshOneResend ==
    \A c \in Callers :
        (/\ Done(c) /\ DefaultCall(c) /\ auto_refresh_auth
         /\ NReq(c) >= 1 /\ call[c].hist[1] = 401)
        => /\ NRefresh(c) = 1
           /\ NReq(c) = 2
           /\ call[c].hist[2] \in {200, 401} => call[c].outcome = Response(call[c].hist[2])

\* C3 as amended: the call makes exactly one refresh attempt; if that
\* refresh succeeds it makes exactly one resend, and a 200 or a second 401
\* on the resend is returned raw with no second refresh; if the refresh
\* fails the call ends with AuthorizationFailed and no resend.
C3_OneRefreshThenResend ==
    \A c \in Callers :
        (/\ DefaultCall(c) /\ auto_refresh_auth
         /\ NReq(c) >= 1 /\ call[c].hist[1] = 401)
        => /\ NRefresh(c) <= 1 /\ NReq(c) <= 2
           /\ Done(c) =>
                /\ NRefresh(c) = 1
                /\ IF call[c].refreshed[1].ok
                   THEN /\ NReq(c) = 2
                        /\ call[c].hist[2] \in {200, 401}
                              => call[c].outcome = Response(call[c].hist[2])
                   ELSE /\ NReq(c) = 1
                        /\ call[c].outcome = TwitchAuthorizationException

\* 401, refresh, 401 again: the raw 401 comes back
C3_Witness ==
    \E c \in Callers :
        /\ Done(c) /\ DefaultCall(c) /\ auto_refresh_auth
        /\ call[c].hist = <<401, 401>>
        /\ NRefresh(c) = 1 /\ call[c].refreshed[1].ok
        /\ call[c].outcome = Response(401)

\* C4: every refresh a call in mode App triggers is a refresh of the app
\* token, and every refresh a call in mode User triggers is a refresh of the
\* user token.
C4_RefreshesUsedCredential ==
    \A c \in Callers : \A i \in 1..NRefresh(c) :
        /\ call[c].auth_type = "APP" => call[c].refreshed[i].target = "app"
        /\ call[c].auth_type = "USER" => call[c].refreshed[i].target = "user"

\* the attempt was itself the resend after a 503
IsResendAfter503(c, i) == i > 1 /\ call[c].hist[i - 1] = 503

\* C5: with auto-refresh enabled, when a call of an endpoint method has
\* ended, every attempt of it that returned 503 (other than the resend a 503
\* caused) was followed by a resend.
C5_Every503Resent ==
    \A c \in Callers :
        (Done(c) /\ DefaultCall(c) /\ auto_refresh_auth)
        => \A i \in 1..NReq(c) :
              (call[c].hist[i] = 503 /\ ~IsResendAfter503(c, i)) => i < NReq(c)

\* C6: a call of an endpoint method that ended with BackendError received
\* 503 on its last two attempts.
C6_BackendErrorAfterTwo503 ==
    \A c \in Callers :
        (Done(c) /\ DefaultCall(c) /\ call[c].outcome = TwitchBackendException)
        => /\ NReq(c) >= 2
           /\ call[c].hist[NReq(c)] = 503
           /\ call[c].hist[NReq(c) - 1] = 503

\* C7: with auto-refresh enabled, a call whose first two attempts returned
\* 503 has ended with BackendError, after these two requests and no refresh.
C7_Two503BackendError ==
    \A c \in Callers :
        (/\ Running(c) /\ auto_refresh_auth
         /\ NReq(c) >= 2 /\ call[c].hist[1] = 503 /\ call[c].hist[2] = 503)
        => /\ Done(c)
           /\ call[c].outcome = TwitchBackendException
           /\ NReq(c) = 2
           /\ NRefresh(c) = 0

C7_Witness ==
    \E c \in Callers :
        /\ Done(c) /\ auto_refresh_auth
        /\ call[c].hist = <<503, 503>>
        /\ call[c].outcome = TwitchBackendException

\* C8: no refresh of a call comes after an attempt of it that returned 503,
\* and when the resend after a 503 returns another status, 401 included,
\* the call has ended with that raw response.
C8_NoRefreshAfter503 ==
    \A c \in Callers :
        /\ \A r \in 1..NRefresh(c) : \A i \in 1..call[c].refreshed[r].after :
              call[c].hist[i] # 503
        /\ \A i \in 1..(NReq(c) - 1) :
              (call[c].hist[i] = 503 /\ call[c].hist[i + 1] # 503)
              => /\ Done(c)
                 /\ NReq(c) = i + 1
                 /\ call[c].outcome = Response(call[c].hist[i + 1])

\* 503 with a retry left, then 401: returned, not refreshed
C8_Witness ==
    \E c \in Callers :
        /\ Done(c) /\ auto_refresh_auth /\ call[c].budget >= 1
        /\ call[c].hist = <<503, 401>>
        /\ NRefresh(c) = 0
        /\ call[c].outcome = Response(401)

\* header generation fails for the call: no credential for the mode, or a
\* required scope that is not granted
FailsFast(c) ==
    \/ NoCredential(call[c].auth_type)
    \/ /\ call[c].auth_type \in {"APP", "USER"}
       /\ ~(Range(call[c].required_scope) \subseteq Granted(call[c].auth_type))

\* C9: with auto-refresh disabled a call makes no refresh and at most one
\* resource request, and ends when that request is answered, with the raw
\* response, whatever the status; a call that fails the checks before the
\* request ends with Unauthorized or MissingScope and sends nothing.
C9_AutoRefreshDisabled ==
    \A c \in Callers :
        (Running(c) /\ ~auto_refresh_auth)
        => /\ NRefresh(c) = 0
           /\ NReq(c) <= 1
           /\ NReq(c) = 1 =>
                Done(c) /\ call[c].outcome = Response(call[c].hist[1])
           /\ FailsFast(c) => NReq(c) = 0
           /\ (Done(c) /\ NReq(c) = 0) =>
                FailsFast(c) /\ call[c].outcome.kind \in {"Unauthorized", "MissingScope"}

C9_Witness ==
    \E c \in Callers :
        /\ Done(c) /\ ~auto_refresh_auth /\ call[c].budget >= 1
        /\ call[c].hist = <<503>>
        /\ call[c].outcome = Response(503)

\* what is left of a call: falls with every step the call takes
Variant(c) ==
    CASE call[c].pc = "attempt" -> 2 * call[c].retries + 2
      [] call[c].pc = "refresh" -> 2 * call[c].retries + 3
      [] OTHER -> 0

C10_Bound ==
    \A c \in Callers :
        Running(c)
        => /\ NReq(c) <= call[c].budget + 1
           /\ NRefresh(c) <= call[c].budget
           /\ call[c].pc = "attempt" => NReq(c) <= call[c].budget
           /\ call[c].pc = "refresh" => NRefresh(c) < call[c].budget
           /\ Variant(c) <= 2 * call[c].budget + 2

C10_Progress ==
    \A c \in Callers :
        (call[c].pc \in {"attempt", "refresh"} /\ call'[c] # call[c])
        => /\ call'[c].pc \in {"attempt", "refresh", "done"}
           /\ Variant(c)' < Variant(c)

\* C10: whatever the server answers, a call started with budget b sends at
\* most b + 1 resource requests and makes at most b refresh attempts, and
\* every step of it brings it nearer to its end (at most 2b + 2 steps).
C10_BoundedRetries == []C10_Bound /\ [][C10_Progress]_vars

\* the budget used up: b refreshes and b + 1 requests, for a b >= 1
C10_Witness ==
    \E c \in Callers :
        /\ Done(c) /\ call[c].budget >= 1
        /\ NReq(c) = call[c].budget + 1
        /\ NRefresh(c) = call[c].budget


\* C11: a refresh that fails is the last thing its call does: the call has
\* ended with AuthorizationFailed (not with a response), no resource request
\* was sent after the one whose 401 caused the refresh, and the credential
\* fields are what they were when the refresh began.
C11_RefreshFailureAborts ==
    \A c \in Callers : \A i \in 1..NRefresh(c) :
        ~call[c].refreshed[i].ok
        => /\ i = NRefresh(c)
           /\ Done(c)
           /\ call[c].outcome = TwitchAuthorizationException
           /\ NReq(c) = call[c].refreshed[i].after
           /\ creds = call[c].refreshed[i].before

\* an authenticated app whose token refresh is turned down
C11_Witness ==
    \E c \in Callers :
        /\ Done(c) /\ call[c].hist = <<401>>
        /\ NRefresh(c) = 1 /\ ~call[c].refreshed[1].ok
        /\ call[c].refreshed[1].target = "app"
        /\ has_app_auth /\ app_auth_token # NoToken
        /\ call[c].outcome = TwitchAuthorizationException

\* C12: whenever auto-refresh is enabled and a user credential is installed
\* a refresh token is stored, and no refresh of the user token is asked for
\* with an absent refresh token.
C12_RefreshTokenPresent ==
    /\ (auto_refresh_auth /\ has_user_auth) => user_auth_refresh_token # NoToken
    /\ \A c \in Callers : \A i \in 1..NRefresh(c) :
          call[c].refreshed[i].target = "user"
          => call[c].refreshed[i].request.refresh_token # NoToken

\* the user credential fields of a snapshot of creds
UserCredOf(snapshot) == snapshot[2]
\* the app credential fields of a snapshot of creds
AppCredOf(snapshot) == snapshot[1]

\* C13: after set_user_authentication: if it was called without a refresh
\* token while auto-refresh is enabled it raised ValueError and the user
\* credential (flag, token, refresh token, scopes) is what it was before;
\* otherwise it raised nothing and the flag is set and token, refresh token
\* and scopes are the ones passed.
C13_SetUserAuthentication ==
    last.op = "set_user_authentication"
    => IF last.refresh_token = NoToken /\ auto_refresh_auth
       THEN /\ last.raised = "ValueError"
            /\ usercred = UserCredOf(last.before)
       ELSE /\ last.raised = "none"
            /\ usercred = <<TRUE, last.token, last.refresh_token, last.scope>>

\* rejected on a client that has a user credential
C13_Witness ==
    /\ last.op = "set_user_authentication"
    /\ last.raised = "ValueError"
    /\ has_user_auth /\ user_auth_token # NoToken
    /\ last.token # user_auth_token

\* C14: an authenticate_app call on a client that has an app credential
\* leaves the stored (token, granted scopes) pair either as it was before
\* the call or, when it succeeded, replaced by the new token and the scopes
\* passed; a failed call leaves the granted scopes unchanged.
C14_AppCredentialWhole ==
    (last.op = "authenticate_app" /\ AppCredOf(last.before)[1])
    => \/ <<app_auth_token, app_auth_scope>>
            = <<AppCredOf(last.before)[2], AppCredOf(last.before)[3]>>
       \/ /\ last.raised = "none"
          /\ app_auth_token # AppCredOf(last.before)[2]
          /\ app_auth_scope = last.scope


\* the refresh_used_token() calls whose effect is still to be seen in the
\* credential fields: the one the application made last, and the last one
\* of a call in flight; ok tells whether it returned
LatestRefreshes ==
    {[target |-> last.target, request |-> last.request, answer |-> last.answer,
      before |-> last.before, ok |-> last.raised = "none"] :
        x \in {y \in {last} : y.op = "refresh_used_token"}}
    \cup
    {[target |-> call[c].refreshed[NRefresh(c)].target,
      request |-> call[c].refreshed[NRefresh(c)].request,
      answer |-> call[c].refreshed[NRefresh(c)].answer,
      before |-> call[c].refreshed[NRefresh(c)].before,
      ok |-> call[c].refreshed[NRefresh(c)].ok] :
        c \in {d \in Callers : NRefresh(d) > 0}}

\* C15: a refresh of the app token asks for a client_credentials token with
\* the app scopes recorded before; answered with 200 and an access_token it
\* returns and only the app token has changed (to a token, a new one);
\* answered otherwise it raises and no credential field has changed.
C15_AppTokenRefresh ==
    \A r \in LatestRefreshes :
        r.target = "app"
        => /\ r.request = [grant_type |-> "client_credentials",
                           scope |-> AppCredOf(r.before)[3]]
           /\ r.ok <=> r.answer = "ok"
           /\ IF r.answer = "ok"
              THEN /\ app_auth_token \notin {NoToken, AppCredOf(r.before)[2]}
                   /\ has_app_auth = AppCredOf(r.before)[1]
                   /\ app_auth_scope = AppCredOf(r.before)[3]
                   /\ usercred = UserCredOf(r.before)
              ELSE creds = r.before

\* an authenticated app with scope A gets a new token
C15_Witness ==
    \E r \in LatestRefreshes :
        /\ r.target = "app" /\ r.ok
        /\ has_app_auth /\ app_auth_scope = {"A"}
        /\ r.request.scope = {"A"}
        /\ AppCredOf(r.before)[2] # NoToken
        /\ app_auth_token # AppCredOf(r.before)[2]

\* C16: a refresh of the user token that returns has replaced the token and
\* the refresh token, both by the ones of the pair it was given; one that
\* raises has replaced neither; either way the user's granted scopes, the
\* installed flag and the app credential are unchanged.
C16_UserTokenRefresh ==
    \A r \in LatestRefreshes :
        r.target = "user"
        => /\ IF r.ok
              THEN /\ user_auth_token # UserCredOf(r.before)[2]
                   /\ user_auth_refresh_token # UserCredOf(r.before)[3]
                   /\ user_auth_refresh_token = user_auth_token
              ELSE /\ user_auth_token = UserCredOf(r.before)[2]
                   /\ user_auth_refresh_token = UserCredOf(r.before)[3]
           /\ has_user_auth = UserCredOf(r.before)[1]
           /\ user_auth_scope = UserCredOf(r.before)[4]
           /\ appcred = AppCredOf(r.before)

\* a 401 in mode User, the pair replaced, the resend answered 200
C16_Witness ==
    \E c \in Callers :
        /\ Done(c) /\ call[c].auth_type = "USER"
        /\ call[c].hist = <<401, 200>>
        /\ call[c].refreshed[1].target = "user" /\ call[c].refreshed[1].ok
        /\ user_auth_token # UserCredOf(call[c].refreshed[1].before)[2]
        /\ user_auth_scope = {"A"}


\* the header a request without a required auth type is to carry
EitherAuthorization ==
    IF has_user_auth THEN <<user_auth_token>>
    ELSE IF has_app_auth THEN <<app_auth_token>>
    ELSE <<>>

\* C17: every invocation of an executor in mode Either sends its request,
\* whatever scopes are required and granted: with the user token if a user
\* credential is installed, else with the app token if an app credential is
\* installed, else without an Authorization header; such a call never ends
\* with Unauthorized or MissingScope.
C17_EitherStep ==
    \A c \in Callers :
        (/\ call[c].pc = "attempt" /\ call[c].auth_type = "EITHER"
         /\ call'[c] # call[c])
        => /\ Len(call'[c].hist) = NReq(c) + 1
           /\ Len(call'[c].sent) = NReq(c) + 1
           /\ call'[c].sent[NReq(c) + 1].Authorization = EitherAuthorization
           /\ call'[c].outcome.kind \notin {"Unauthorized", "MissingScope"}

C17_EitherNeverFails == [][C17_EitherStep]_vars

\* both credentials installed, none granting the required scopes: sent with
\* the user token
C17_Witness ==
    \E c \in Callers :
        /\ Done(c) /\ call[c].auth_type = "EITHER"
        /\ call[c].required_scope = <<"A", "B">>
        /\ has_user_auth /\ has_app_auth
        /\ user_auth_scope = {} /\ app_auth_scope = {}
        /\ call[c].hist = <<200>>
        /\ call[c].sent[1].Authorization = <<user_auth_token>>
        /\ user_auth_token # app_auth_token

\* C18: a call whose first attempt was answered with a status other than 401
\* and 503 has ended with that response: one resource request, no refresh,
\* no exception; with auto-refresh enabled or disabled.
C18_PassThrough ==
    \A c \in Callers :
        (Running(c) /\ NReq(c) >= 1 /\ call[c].hist[1] \notin {401, 503})
        => /\ Done(c)
           /\ NReq(c) = 1
           /\ NRefresh(c) = 0
           /\ call[c].outcome = Response(call[c].hist[1])

\* a 404 with auto-refresh enabled and a retry left
C18_Witness ==
    \E c \in Callers :
        /\ Done(c) /\ auto_refresh_auth /\ call[c].budget >= 1
        /\ call[c].hist = <<404>>
        /\ call[c].outcome = Response(404)

\* an invocation of an executor that generates its header, with or without
\* success, changes no credential field and no flag, and what header
\* generation gives for any input is the same after it as before it
C19_HeaderStep ==
    \A c \in Callers :
        (call[c].pc = "attempt" /\ call'[c] # call[c])
        => /\ creds' = creds
           /\ auto_refresh_auth' = auto_refresh_auth
           /\ \A a \in AuthTypes, R \in RequiredScopes :
                 GenerateHeader(a, R)' = GenerateHeader(a, R)

\* two invocations in a row with nothing but a 503 between them carry the
\* same headers
C19_SameHeaders ==
    \A c \in Callers : \A i \in 1..(NReq(c) - 1) :
        call[c].hist[i] = 503
        => call[c].sent[i + 1] = call[c].sent[i]

\* C19: header generation changes no credential field and no flag, whether
\* it succeeds or fails, and invoked twice with the same auth type and
\* required scopes on an unchanged state it gives the same headers or the
\* same failure.
C19_HeaderPure == []C19_SameHeaders /\ [][C19_HeaderStep]_vars

\* the resend after a 503 in mode App with a required scope
C19_Witness ==
    \E c \in Callers :
        /\ call[c].auth_type = "APP"
        /\ call[c].required_scope = <<"A">> /\ app_auth_scope = {"A", "B"}
        /\ call[c].hist = <<503, 200>>
        /\ call[c].sent[1] = call[c].sent[2]
        /\ call[c].sent[1].Authorization = <<app_auth_token>>

\* C20: while neither authenticate_app nor set_user_authentication has
\* succeeded, get_app_token and get_used_token give None; get_used_token
\* gives the user token once a user credential is installed and the app
\* token otherwise.
C20_NoTokenWithoutAuth ==
    /\ (~has_app_auth /\ ~has_user_auth)
          => GetAppToken = NoToken /\ GetUsedToken = NoToken
    /\ has_user_auth => GetUsedToken = user_auth_token
    /\ ~has_user_auth => GetUsedToken = app_auth_token

\* a call made by get_hype_train_events
HypeTrainCall(c) ==
    /\ Running(c)
    /\ call[c].method = "GET"
    /\ call[c].auth_type = "APP"
    /\ call[c].required_scope = <<CHANNEL_READ_HYPE_TRAIN>>
    /\ call[c].budget = DefaultRetries

\* C23: a get_hype_train_events call made while an app credential or a user
\* credential granting CHANNEL_READ_HYPE_TRAIN is installed does not end
\* with Unauthorized; so not on a client that holds only a user credential
\* with that scope.
C23_HypeTrainEitherCredential ==
    \A c \in Callers :
        (/\ HypeTrainCall(c) /\ Done(c)
         /\ \/ has_app_auth /\ CHANNEL_READ_HYPE_TRAIN \in app_auth_scope
            \/ has_user_auth /\ CHANNEL_READ_HYPE_TRAIN \in user_auth_scope)
        => call[c].outcome # UnauthorizedException

\* the step sends a resource request for caller c
Sends(c) == Len(call'[c].sent) = Len(call[c].sent) + 1

C24_Step ==
    \A c \in Callers :
        Sends(c)
        => LET h == call'[c].sent[Len(call'[c].sent)]
           IN  /\ h.ClientID = "app_id"
               /\ h.Authorization # <<>>
                     <=> \/ call[c].auth_type \in {"APP", "USER"}
                         \/ call[c].auth_type = "EITHER"
                               /\ (has_user_auth \/ has_app_auth)

\* C24: every resource request an executor sends, a first attempt or a
\* resend, carries the Client-ID header with the app id, and carries an
\* Authorization header exactly if the auth mode is App or User, or it is
\* Either and an app or a user credential is installed.
C24_HeadersOfEveryRequest == [][C24_Step]_vars

\* a resend in mode Either on a client that has only an app credential
C24_Witness ==
    \E c \in Callers :
        /\ call[c].auth_type = "EITHER" /\ has_app_auth /\ ~has_user_auth
        /\ call[c].hist = <<401, 200>>
        /\ call[c].sent[2] = Header(<<app_auth_token>>)
        /\ call[c].sent[1].ClientID = "app_id"
        /\ call[c].sent[1].Authorization # call[c].sent[2].Authorization

\* C25: when a refresh a 401 caused has succeeded and the request is sent
\* again, the resent request carries the token that refresh produced, and
\* not the Authorization of the request that was rejected; in every auth
\* mode and with every combination of installed credentials.
C25_ResendCarriesNewToken ==
    \A c \in Callers : \A i \in 1..NRefresh(c) :
        LET r == call[c].refreshed[i]
        IN  (r.ok /\ NReq(c) > r.after)
            => /\ call[c].sent[r.after + 1].Authorization = <<r.token>>
               /\ call[c].sent[r.after + 1].Authorization
                     # call[c].sent[r.after].Authorization

\* what each of the five executors does with a response is what the GET
\* executor does with it
C26_SameBranch ==
    \A m \in Methods, retries \in 0..MaxRetries, status \in Statuses :
        Executor(m, retries, status) = ApiGetRequest(retries, status)

\* every invocation that sent a request, whatever its HTTP verb, goes on as
\* the GET executor would with the same retries and the same response
C26_Step ==
    \A c \in Callers :
        Sends(c)
        => LET status == call'[c].hist[Len(call'[c].hist)]
               b == ApiGetRequest(call[c].retries, status)
           IN  /\ b.next = "refresh" =>
                     call'[c].pc = "refresh" /\ call'[c].retries = b.retries
               /\ b.next = "resend" =>
                     call'[c].pc = "attempt" /\ call'[c].retries = b.retries
               /\ b.next = "raise" =>
                     call'[c].pc = "done"
                     /\ call'[c].outcome = TwitchBackendException
               /\ b.next = "return" =>
                     call'[c].pc = "done"
                     /\ call'[c].outcome = Response(status)
               /\ Len(call'[c].refreshed) = NRefresh(c)

\* C26: the GET, POST, PUT, PATCH and DELETE executors are the same retry
\* and refresh state machine: in the same state, with the same retries and
\* the same response, each refreshes, resends, raises or returns as the
\* others do, so that they make the same requests and refreshes and end
\* with the same outcome.
C26_SameStateMachine == []C26_SameBranch /\ [][C26_Step]_vars

\* a DELETE call: 401, refresh, 401 returned raw
C26_Witness ==
    \E c \in Callers :
        /\ Done(c) /\ call[c].method = "DELETE" /\ call[c].auth_type = "USER"
        /\ call[c].hist = <<401, 401>>
        /\ NRefresh(c) = 1
        /\ call[c].outcome = Response(401)

\* C28: set_user_authentication, accepted or rejected, leaves every field
\* of the app credential as it was; authenticate_app, successful or failed,
\* leaves every field of the user credential as it was; and each credential
\* holds one token, the one of the latest successful install.
C28_CredentialsIndependent ==
    /\ last.op = "set_user_authentication"
          => /\ appcred = AppCredOf(last.before)
             /\ last.raised = "none" => user_auth_token = last.token
    /\ last.op = "authenticate_app"
          => /\ usercred = UserCredOf(last.before)
             /\ last.raised = "none"
                   => app_auth_token \notin {NoToken, AppCredOf(last.before)[2]}

\* the app authenticated on a client that has a user credential
C28_Witness ==
    /\ last.op = "authenticate_app" /\ last.raised = "none"
    /\ has_user_auth /\ user_auth_token # NoToken
    /\ user_auth_scope = {"A", "B"}
    /\ has_app_auth /\ app_auth_token # user_auth_token

\* C29: no refresh, the one step of a call that writes a credential field,
\* is caused by a request that carried no Authorization header (mode Either
\* on a client without an installed credential), whatever the status it was
\* answered with and whether auto-refresh is enabled or not.
C29_NoRefreshWithoutToken ==
    \A c \in Callers : \A i \in 1..NRefresh(c) :
        call[c].sent[call[c].refreshed[i].after].Authorization # <<>>

\* a credential marked installed has a token; the user token is the one
\* supplied by the latest set_user_authentication or stored by the latest
\* refresh of the user token
C30_Installed ==
    /\ has_app_auth => app_auth_token # NoToken
    /\ has_user_auth => user_auth_token # NoToken
    /\ (last.op = "set_user_authentication" /\ last.raised = "none")
          => has_user_auth /\ user_auth_token = last.token
    /\ \A c \in Callers :
          (/\ NRefresh(c) > 0
           /\ call[c].refreshed[NRefresh(c)].target = "user"
           /\ call[c].refreshed[NRefresh(c)].ok)
          => has_user_auth
             /\ user_auth_token = call[c].refreshed[NRefresh(c)].token

\* no step takes an installed flag back
C30_Monotone ==
    /\ has_app_auth => has_app_auth'
    /\ has_user_auth => has_user_auth'

\* C30: in every reachable state the app-installed flag implies a stored
\* app token and the user-installed flag implies the user token supplied or
\* last refreshed; and no operation, a failed authenticate_app, a failed
\* refresh and a rejected set_user_authentication included, turns an
\* installed credential back into not installed.
C30_InstalledHasToken == []C30_Installed /\ [][C30_Monotone]_vars

\* authenticate_app failed on a client whose app is authenticated
C30_Witness ==
    /\ last.op = "authenticate_app"
    /\ last.raised = "TwitchAuthorizationException"
    /\ AppCredOf(last.before)[1]
    /\ has_app_auth /\ app_auth_token = AppCredOf(last.before)[2]
    /\ app_auth_token # NoToken

\* the stored token and refresh token were stored together: every pair that
\* set_user_authentication is given or a refresh returns is (t, t) or (t, none)
PairWhole == user_auth_refresh_token \in {NoToken, user_auth_token}

\* a call that is about to read the credential fields: to build its header,
\* or to pick the refresh token to exchange
Reads(c) == call[c].pc \in {"attempt", "refresh"}

\* C21: with concurrent callers, whenever a call is about to read the user
\* credential, the stored token and the stored refresh token come from the
\* same refresh or the same set_user_authentication.
C21_NoTornPair ==
    \A c \in Callers : (Reads(c) /\ has_user_auth) => PairWhole

\* no call is between the two stores of a refresh
NoStorePending ==
    \A c \in Callers : call[c].pc \notin {"store_token", "store_refresh_token"}

\* C22: with auto-refresh enabled, each of the calls in flight that was
\* answered 401 on its first attempt (budget 1) makes a refresh of its own,
\* none waits for or shares the refresh of another; and once both have
\* refreshed the user token, the stored token and refresh token are the
\* pair one of the two refreshes returned (the one that wrote last).
C22_EachRefreshesLastWins ==
    /\ \A c \in Callers :
          (/\ auto_refresh_auth /\ NReq(c) >= 1 /\ call[c].hist[1] = 401
           /\ call[c].budget >= 1 /\ call[c].pc # "refresh")
          => NRefresh(c) = 1 /\ call[c].refreshed[1].after = 1
    /\ (/\ NoStorePending
        /\ \A c \in Callers :
              /\ NRefresh(c) = 1
              /\ call[c].refreshed[1].target = "user"
              /\ call[c].refreshed[1].ok)
       => \E c \in Callers :
              /\ user_auth_token = call[c].refreshed[1].token
              /\ user_auth_refresh_token = call[c].refreshed[1].token

\* C27: with concurrent callers too, the resend after a 503 carries the
\* headers of the attempt that was answered 503.
C27_ResendSameHeaders ==
    \A c \in Callers : \A i \in 1..(NReq(c) - 1) :
        call[c].hist[i] = 503
        => call[c].sent[i + 1] = call[c].sent[i]

====
